---- MODULE Spec2Model ----
(***************************************************************************)
(* Model of the archive ingestion loader, import_zip.py: for each          *)
(* configured year it lists the year's working directory, reads every .dbf *)
(* file into a data frame, tags it with the year, lowercases its column    *)
(* names and appends it to the SQLite table named after the file.          *)
(***************************************************************************)
EXTENDS Integers, Sequences, FiniteSets, TLC

\* ---------------------------------------------------------------- bounds
\* Files in the whole source tree, records in one file, invocations of the
\* script against the same store.
MaxFiles == 2
MaxRecs == 2
MaxRuns == 2

\* ------------------------------------------------------- program constants
YEARS_TO_PROCESS == <<2018, 2019, 2020>>

\* ------------------------------------------------------------------ strings
\* A string is a sequence of one-character strings.
UpperChars == <<"A", "B", "D", "E", "F", "R", "Y">>
LowerChars == <<"a", "b", "d", "e", "f", "r", "y">>

LowerChar(c) ==
  IF \E i \in DOMAIN UpperChars : UpperChars[i] = c
  THEN LowerChars[CHOOSE i \in DOMAIN UpperChars : UpperChars[i] = c]
  ELSE c

\* str.lower()
Lower(s) == [i \in DOMAIN s |-> LowerChar(s[i])]

\* str.endswith(suffix)
EndsWith(s, suffix) ==
  /\ Len(s) >= Len(suffix)
  /\ SubSeq(s, Len(s) - Len(suffix) + 1, Len(s)) = suffix

\* os.path.splitext(p)[0]: cut at the last dot, unless only dots precede it.
SplitextRoot(p) ==
  LET dots == {i \in DOMAIN p : p[i] = "."} IN
  IF dots = {} THEN p
  ELSE LET d == CHOOSE i \in dots : \A j \in dots : j <= i IN
       IF \E k \in 1..(d - 1) : p[k] # "." THEN SubSeq(p, 1, d - 1) ELSE p

Range(s) == {s[i] : i \in DOMAIN s}

DotDbf == <<".", "d", "b", "f">>
YearCol == <<"y", "e", "a", "r">>

\* --------------------------------------------------------- the source tree
F1_1_DBF == <<"F", "1", "_", "1", ".", "D", "B", "F">>
f1_1_dbf == <<"f", "1", "_", "1", ".", "d", "b", "f">>
f1_2_dbf == <<"f", "1", "_", "2", ".", "d", "b", "f">>
f1_1_txt == <<"f", "1", "_", "1", ".", "t", "x", "t">>

FileNames == {F1_1_DBF, f1_1_dbf, f1_2_dbf, f1_1_txt}

FieldsA == << <<"A">> >>
FieldsAB == << <<"A">>, <<"B">> >>
FieldsAYEAR == << <<"A">>, <<"Y", "E", "A", "R">> >>
FieldsYearA == << <<"y", "e", "a", "r">>, <<"A">> >>

FieldLists == {FieldsA, FieldsAB, FieldsAYEAR, FieldsYearA}

\* What a file holds: unreadable, or nrec records over the field list.
CorruptBody == [corrupt |-> TRUE, nrec |-> 0, fields |-> <<>>]
EmptyBody == [corrupt |-> FALSE, nrec |-> 0, fields |-> <<>>]
Records(counts, fieldLists) == [corrupt : {FALSE}, nrec : counts, fields : fieldLists]

Bodies == {CorruptBody, EmptyBody} \cup Records(1..MaxRecs, FieldLists)

IsDbfName(f) == EndsWith(Lower(f), DotDbf)

\* The files with these names: a .dbf file holds one of the bodies, any other
\* file is never opened.
FilesOf(names, bodies) ==
  {[name |-> n, body |-> b] : n \in {f \in names : IsDbfName(f)}, b \in bodies}
    \cup {[name |-> n, body |-> EmptyBody] : n \in {f \in names : ~IsDbfName(f)}}

Files == FilesOf(FileNames, Bodies)

\* Smaller sets of files, each varying what one group of properties is about.
\* Record counts, and fields that differ from year to year:
CountFiles == FilesOf({F1_1_DBF, f1_2_dbf}, Records(1..MaxRecs, {FieldsA, FieldsAB}))

\* Tables written again by a second run, with failing and empty files:
RerunFiles ==
  FilesOf({F1_1_DBF, f1_2_dbf},
          {CorruptBody, EmptyBody}
            \cup Records({MaxRecs}, {FieldsA}) \cup Records({1}, {FieldsAB}))

\* Column names, a year column in either case among them:
ColumnFiles == FilesOf({F1_1_DBF, f1_2_dbf}, Records({MaxRecs}, FieldLists))

\* Unreadable, empty and mismatching files among readable ones:
FaultFiles ==
  FilesOf(FileNames,
          {CorruptBody, EmptyBody} \cup Records({MaxRecs}, {FieldsA, FieldsAB}))

YearSet == Range(YEARS_TO_PROCESS)
NumYears == Len(YEARS_TO_PROCESS)

DirKinds == {"missing", "unlistable", "dir"}

\* The tree with the files `all` dealt to the years in list order: year k gets
\* the files after cut[k-1] up to cut[k].
MkTree(all, cut, kinds) ==
  [y \in YearSet |->
     LET k == CHOOSE i \in 1..NumYears : YEARS_TO_PROCESS[i] = y
         lo == IF k = 1 THEN 0 ELSE cut[k - 1]
         hi == IF k = NumYears THEN Len(all) ELSE cut[k]
     IN [kind |-> kinds[k], files |-> SubSeq(all, lo + 1, hi)]]

ValidTree(t) ==
  \A y \in YearSet :
    /\ t[y].kind # "dir" => t[y].files = <<>>
    /\ \A i, j \in DOMAIN t[y].files :
         t[y].files[i].name = t[y].files[j].name => i = j

Cuts(n) ==
  {c \in [1..(NumYears - 1) -> 0..n] : \A i \in 1..(NumYears - 2) : c[i] <= c[i + 1]}

VARIABLES
  fs,               \* the source tree under BASE_DATA_DIR
  storeAvailable,   \* whether the SQLite file can be opened or created
  dupColumnsRaise,  \* whether the installed to_sql rejects duplicate labels
  store,            \* the database: table name -> columns and rows
  pc,               \* "year", "file", "done" or "aborted"
  yi,               \* index of the year being processed
  dbf_files,        \* the .dbf names listed for the current year
  fi,               \* index of the file being processed
  log,              \* the lines printed by this run
  excs,             \* the exceptions raised inside the per-file try block
  run,              \* which invocation of the script this is
  prev              \* the store as this run found it

vars ==
  <<fs, storeAvailable, dupColumnsRaise, store, pc, yi, dbf_files, fi, log,
    excs, run, prev>>

EmptyStore == [t \in {} |-> [cols |-> {}, rows |-> <<>>]]

NoFile == <<>>
Line(kind, year, file) == [kind |-> kind, year |-> year, file |-> file]

\* ----------------------------------------------------------- data frames
\* pd.DataFrame(iter(dbf_table)): one row per record, one column per field.
Materialize(body) ==
  IF body.nrec = 0 THEN [cols |-> <<>>, rows |-> <<>>]
  ELSE [cols |-> body.fields,
        rows |-> [r \in 1..body.nrec |-> [j \in DOMAIN body.fields |-> r]]]

\* TagYear without the overwrite: a frame that has a year column keeps it.
TagYear_KeepExisting(df, year) ==
  IF \E j \in DOMAIN df.cols : df.cols[j] = YearCol
  THEN df
  ELSE [cols |-> Append(df.cols, YearCol),
        rows |-> [r \in DOMAIN df.rows |-> Append(df.rows[r], year)]]

\* TagYear writing the column under the label Year.
TagYear_Capitalised(df, year) ==
  LET label == <<"Y", "e", "a", "r">> IN
  IF \E j \in DOMAIN df.cols : df.cols[j] = label
  THEN [df EXCEPT !.rows =
          [r \in DOMAIN df.rows |->
             [j \in DOMAIN df.cols |->
                IF df.cols[j] = label THEN year ELSE df.rows[r][j]]]]
  ELSE [cols |-> Append(df.cols, label),
        rows |-> [r \in DOMAIN df.rows |-> Append(df.rows[r], year)]]

\* df['year'] = year
TagYear(df, year) ==
  IF \E j \in DOMAIN df.cols : df.cols[j] = YearCol
  THEN [df EXCEPT !.rows =
          [r \in DOMAIN df.rows |->
             [j \in DOMAIN df.cols |->
                IF df.cols[j] = YearCol THEN year ELSE df.rows[r][j]]]]
  ELSE [cols |-> Append(df.cols, YearCol),
        rows |-> [r \in DOMAIN df.rows |-> Append(df.rows[r], year)]]

\* df.columns = df.columns.str.lower()
LowerCols(df) == [df EXCEPT !.cols = [j \in DOMAIN df.cols |-> Lower(df.cols[j])]]

\* TableName without the lowercasing.
TableName_NoLower(dbf_filename) == SplitextRoot(dbf_filename)

\* os.path.splitext(dbf_filename)[0].lower()
TableName(dbf_filename) == Lower(SplitextRoot(dbf_filename))

\* [f for f in os.listdir(working_dir) if f.lower().endswith('.dbf')]
DbfFiles(listing) == SelectSeq(listing, IsDbfName)

Listing(year) == [i \in DOMAIN fs[year].files |-> fs[year].files[i].name]

BodyOf(year, name) ==
  (CHOOSE f \in Range(fs[year].files) : f.name = name).body

HasDuplicates(cols) == Cardinality(Range(cols)) < Len(cols)

\* The parameter dictionary of one row: a repeated label keeps its last value.
RowDict(cols, row) ==
  [c \in Range(cols) |->
     row[CHOOSE j \in DOMAIN cols :
           cols[j] = c /\ \A k \in DOMAIN cols : cols[k] = c => k <= j]]

\* ToSql with if_exists='replace': an existing table is dropped and rewritten.
ToSql_Replace(df, name, st) ==
  LET rows == [r \in DOMAIN df.rows |-> RowDict(df.cols, df.rows[r])] IN
  IF ~storeAvailable \/ (HasDuplicates(df.cols) /\ dupColumnsRaise)
  THEN [raised |-> TRUE, store |-> st]
  ELSE [raised |-> FALSE,
        store |-> [t \in DOMAIN st \cup {name} |->
                     IF t = name THEN [cols |-> Range(df.cols), rows |-> rows]
                     ELSE st[t]]]

\* ToSql with if_exists='fail': an existing table makes the call raise.
ToSql_FailIfExists(df, name, st) ==
  LET rows == [r \in DOMAIN df.rows |-> RowDict(df.cols, df.rows[r])] IN
  IF ~storeAvailable \/ (HasDuplicates(df.cols) /\ dupColumnsRaise)
       \/ name \in DOMAIN st
  THEN [raised |-> TRUE, store |-> st]
  ELSE [raised |-> FALSE,
        store |-> [t \in DOMAIN st \cup {name} |->
                     IF t = name THEN [cols |-> Range(df.cols), rows |-> rows]
                     ELSE st[t]]]

\* df.to_sql(name, con=engine, if_exists='append', index=False): connects,
\* creates the table when it is missing, inserts all rows in one transaction.
\* It raises when the database cannot be opened and when the frame has a
\* column the existing table lacks. A frame with a repeated label is rejected
\* by some installed versions and written, the last value winning, by others.
ToSql(df, name, st) ==
  LET rows == [r \in DOMAIN df.rows |-> RowDict(df.cols, df.rows[r])]
      fail == [raised |-> TRUE, store |-> st]
  IN
  IF ~storeAvailable THEN fail
  ELSE IF HasDuplicates(df.cols) /\ dupColumnsRaise THEN fail
  ELSE IF name \notin DOMAIN st
  THEN [raised |-> FALSE,
        store |-> [t \in DOMAIN st \cup {name} |->
                     IF t = name THEN [cols |-> Range(df.cols), rows |-> rows]
                     ELSE st[t]]]
  ELSE IF Range(df.cols) \subseteq st[name].cols
  THEN [raised |-> FALSE,
        store |-> [st EXCEPT ![name].rows = st[name].rows \o rows]]
  ELSE fail

\* ------------------------------------------------------------- the loader
\* The loader's own state as one record, so that a whole run is a function.
Machine ==
  [store |-> store, pc |-> pc, yi |-> yi, dbf_files |-> dbf_files, fi |-> fi,
   log |-> log, excs |-> excs]

StartOfRun(st) ==
  [store |-> st, pc |-> "year", yi |-> 1, dbf_files |-> <<>>, fi |-> 0,
   log |-> <<>>, excs |-> <<>>]

\* TryFile without the df.empty test: an empty frame is tagged and written.
TryFile_NoEmptyCheck(year, dbf_filename, st) ==
  LET body == BodyOf(year, dbf_filename)
      table_name == TableName(dbf_filename)
      reading == <<Line("Reading", year, dbf_filename)>>
  IN
  IF body.corrupt
  THEN [raised |-> TRUE, store |-> st, lines |-> reading]
  ELSE LET r == ToSql(LowerCols(TagYear(Materialize(body), year)), table_name, st) IN
       [raised |-> r.raised, store |-> r.store,
        lines |-> Append(reading, Line("Loading", year, table_name))]

\* The body of the per-file try block for one file: read, materialize, skip
\* when empty, tag, lowercase, append.
TryFile(year, dbf_filename, st) ==
  LET body == BodyOf(year, dbf_filename)
      table_name == TableName(dbf_filename)
      reading == <<Line("Reading", year, dbf_filename)>>
  IN
  IF body.corrupt
  THEN [raised |-> TRUE, store |-> st, lines |-> reading]
  ELSE LET df == Materialize(body) IN
       IF df.rows = <<>>
       THEN [raised |-> FALSE, store |-> st,
             lines |-> Append(reading, Line("Empty", year, dbf_filename))]
       ELSE LET r == ToSql(LowerCols(TagYear(df, year)), table_name, st) IN
            [raised |-> r.raised, store |-> r.store,
             lines |-> Append(reading, Line("Loading", year, table_name))]

\* The for statement over the years moves on: the next year, or past the loop
\* to the closing summary.
NextYear(years, m, lg) ==
  IF m.yi < Len(years)
  THEN [m EXCEPT !.pc = "year", !.yi = m.yi + 1, !.dbf_files = <<>>, !.fi = 0,
                 !.log = lg]
  ELSE [m EXCEPT !.pc = "done", !.yi = m.yi + 1, !.dbf_files = <<>>, !.fi = 0,
                 !.log = Append(lg, Line("Complete", 0, NoFile))]

\* YearStep without the os.path.exists test: listing a missing directory raises.
YearStep_NoExistsCheck(years, m) ==
  LET year == years[m.yi]
      lg == Append(m.log, Line("Processing", year, NoFile))
  IN
  IF fs[year].kind # "dir"
  THEN [m EXCEPT !.pc = "aborted", !.log = lg]
  ELSE LET files == DbfFiles(Listing(year)) IN
       IF files = <<>>
       THEN NextYear(years, m, Append(lg, Line("NoDbf", year, NoFile)))
       ELSE [m EXCEPT !.pc = "file", !.dbf_files = files, !.fi = 1, !.log = lg]

\* The head of one iteration of the year loop: the directory check, the
\* listing and the .dbf filter.
YearStep(years, m) ==
  LET year == years[m.yi]
      lg == Append(m.log, Line("Processing", year, NoFile))
  IN
  IF fs[year].kind = "missing"
  THEN NextYear(years, m, Append(lg, Line("NotFound", year, NoFile)))
  ELSE IF fs[year].kind = "unlistable"
  THEN [m EXCEPT !.pc = "aborted", !.log = lg]
  ELSE LET files == DbfFiles(Listing(year)) IN
       IF files = <<>>
       THEN NextYear(years, m, Append(lg, Line("NoDbf", year, NoFile)))
       ELSE [m EXCEPT !.pc = "file", !.dbf_files = files, !.fi = 1, !.log = lg]

\* FileStep without the except clause: an exception ends the script.
FileStep_NoHandler(years, m) ==
  LET year == years[m.yi]
      dbf_filename == m.dbf_files[m.fi]
      r == TryFile(year, dbf_filename, m.store)
      n == [m EXCEPT !.store = r.store, !.log = m.log \o r.lines]
  IN
  IF r.raised
  THEN [n EXCEPT !.pc = "aborted",
                 !.excs = Append(m.excs, [year |-> year, file |-> dbf_filename])]
  ELSE IF m.fi < Len(m.dbf_files)
  THEN [n EXCEPT !.fi = m.fi + 1]
  ELSE NextYear(years, n, Append(n.log, Line("Finished", year, NoFile)))

\* One iteration of the file loop, its except clause included, and the end of
\* the year after the last file.
FileStep(years, m) ==
  LET year == years[m.yi]
      dbf_filename == m.dbf_files[m.fi]
      r == TryFile(year, dbf_filename, m.store)
      lg == IF r.raised
            THEN m.log \o Append(r.lines, Line("ERROR", year, dbf_filename))
            ELSE m.log \o r.lines
      ex == IF r.raised
            THEN Append(m.excs, [year |-> year, file |-> dbf_filename])
            ELSE m.excs
      n == [m EXCEPT !.store = r.store, !.excs = ex]
  IN
  IF m.fi < Len(m.dbf_files)
  THEN [n EXCEPT !.fi = m.fi + 1, !.log = lg]
  ELSE NextYear(years, n, Append(lg, Line("Finished", year, NoFile)))

Halted(m) == m.pc \in {"done", "aborted"}

Step(years, m) ==
  IF m.pc = "year" THEN YearStep(years, m) ELSE FileStep(years, m)

\* A whole run of the script over the year list, from the store st.
RECURSIVE RunFrom(_, _)
RunFrom(years, m) == IF Halted(m) THEN m ELSE RunFrom(years, Step(years, m))

RunLoader(years, st) ==
  IF years = <<>>
  THEN [StartOfRun(st) EXCEPT !.pc = "done", !.log = <<Line("Complete", 0, NoFile)>>]
  ELSE RunFrom(years, StartOfRun(st))

\* ------------------------------------------------------------ the actions
Becomes(n) ==
  /\ store' = n.store
  /\ pc' = n.pc
  /\ yi' = n.yi
  /\ dbf_files' = n.dbf_files
  /\ fi' = n.fi
  /\ log' = n.log
  /\ excs' = n.excs

\* The state before the first run, over a tree of the given files.
InitOver(files, available, raising) ==
  /\ \E n \in 0..MaxFiles :
       \E all \in [1..n -> files], cut \in Cuts(n), kinds \in [1..NumYears -> DirKinds] :
         /\ fs = MkTree(all, cut, kinds)
         /\ ValidTree(fs)
  /\ storeAvailable \in available
  /\ dupColumnsRaise \in raising
  /\ run = 1
  /\ prev = EmptyStore
  /\ store = EmptyStore
  /\ pc = "year"
  /\ yi = 1
  /\ dbf_files = <<>>
  /\ fi = 0
  /\ log = <<>>
  /\ excs = <<>>

Init == InitOver(Files, BOOLEAN, BOOLEAN)

BeginYear ==
  /\ pc = "year"
  /\ Becomes(YearStep(YEARS_TO_PROCESS, Machine))
  /\ UNCHANGED <<fs, storeAvailable, dupColumnsRaise, run, prev>>

ProcessFile ==
  /\ pc = "file"
  /\ Becomes(FileStep(YEARS_TO_PROCESS, Machine))
  /\ UNCHANGED <<fs, storeAvailable, dupColumnsRaise, run, prev>>

\* The operator starts the script again on the same tree and the same store.
Rerun ==
  /\ Halted(Machine)
  /\ run < MaxRuns
  /\ run' = run + 1
  /\ prev' = store
  /\ Becomes(StartOfRun(store))
  /\ UNCHANGED <<fs, storeAvailable, dupColumnsRaise>>

\* One run of the script.
Loader == BeginYear \/ ProcessFile

Next == BeginYear \/ ProcessFile \/ Rerun

Spec == Init /\ [][Next]_vars

\* One run over each of the smaller sets of files, and repeated runs over
\* RerunFiles.
SpecCount == InitOver(CountFiles, {TRUE}, {TRUE}) /\ [][Loader]_vars

SpecColumns == InitOver(ColumnFiles, {TRUE}, BOOLEAN) /\ [][Loader]_vars

SpecFaults == InitOver(FaultFiles, BOOLEAN, {TRUE}) /\ [][Loader]_vars

SpecRerun == InitOver(RerunFiles, {TRUE}, {TRUE}) /\ [][Next]_vars

\* --------------------------------------------- vocabulary of the properties
YearIndex(y) == CHOOSE i \in 1..NumYears : YEARS_TO_PROCESS[i] = y

\* The loop has left year y behind.
Past(y) == yi > YearIndex(y)

AbortedIn(y) == pc = "aborted" /\ YEARS_TO_PROCESS[yi] = y

Printed(kind, y, file) == Line(kind, y, file) \in Range(log)

Raised(y, file) == [year |-> y, file |-> file] \in Range(excs)

ExcsIn(y) == {k \in DOMAIN excs : excs[k].year = y}

\* The .dbf files of year y, as the file system holds them.
DbfOf(y) == SelectSeq(fs[y].files, LAMBDA f : IsDbfName(f.name))

\* The destination table of a .dbf file, as the specification words it: the
\* name without its four-character extension, in lowercase.
BaseName(f) == Lower(SubSeq(f, 1, Len(f) - Len(DotDbf)))

\* This run read the file and no exception came out of its processing.
Ingested(y, file) == Printed("Reading", y, file) /\ ~Raised(y, file)

RowsOf(st, T) == IF T \in DOMAIN st THEN st[T].rows ELSE <<>>

\* The rows this run has appended to table T.
Appended(T) ==
  SubSeq(RowsOf(store, T), Len(RowsOf(prev, T)) + 1, Len(RowsOf(store, T)))

CountTagged(rows, y) ==
  Cardinality({k \in DOMAIN rows : YearCol \in DOMAIN rows[k] /\ rows[k][YearCol] = y})

\* The records of the files in `files` that belong to table T, the files whose
\* names are in `skip` left out.
RECURSIVE SumRecs(_, _, _)
SumRecs(files, T, skip) ==
  IF files = <<>> THEN 0
  ELSE LET f == Head(files) IN
       (IF BaseName(f.name) = T /\ f.name \notin skip THEN f.body.nrec ELSE 0)
         + SumRecs(Tail(files), T, skip)

\* The same over the years ys, skip[y] being the names left out in year y.
RECURSIVE SumYears(_, _, _)
SumYears(ys, T, skip) ==
  IF ys = <<>> THEN 0
  ELSE SumRecs(DbfOf(Head(ys)), T, skip[Head(ys)]) + SumYears(Tail(ys), T, skip)

NamesOf(files) == {files[i].name : i \in DOMAIN files}

NotIngested == [y \in YearSet |-> {f \in NamesOf(DbfOf(y)) : ~Ingested(y, f)}]

NoSkip == [y \in YearSet |-> {}]

Tables == {BaseName(f) : f \in {g \in FileNames : IsDbfName(g)}} \cup DOMAIN store

IsPrefix(s, t) == Len(s) <= Len(t) /\ SubSeq(t, 1, Len(s)) = s

Without(years, y) == SelectSeq(years, LAMBDA x : x # y)

\* -------------------------------------------------------------- properties

\* C1 as stated: after one complete run from an empty, available store, table
\* T holds for every year y as many rows tagged y as year y's files named T
\* hold records, and as many rows in all as these counts add up to.
C1_EveryRecordCounted ==
  (run = 1 /\ pc = "done" /\ storeAvailable) =>
    \A T \in Tables :
      /\ \A y \in YearSet :
           CountTagged(RowsOf(store, T), y) = SumRecs(DbfOf(y), T, {})
      /\ Len(RowsOf(store, T)) = SumYears(YEARS_TO_PROCESS, T, NoSkip)

\* C1 amended: during and after the first run, from an empty store, table T
\* holds for every year y as many rows tagged y as there are records in the
\* files named T of year y that the run has read without an exception, and
\* its row count is the sum of these over the years.
C1_IngestedRecordsCounted ==
  run = 1 =>
    LET skip == NotIngested IN
    \A T \in Tables :
      /\ \A y \in YearSet :
           CountTagged(RowsOf(store, T), y) = SumRecs(DbfOf(y), T, skip[y])
      /\ Len(RowsOf(store, T)) = SumYears(YEARS_TO_PROCESS, T, skip)

\* Two years have fed the same table, one of them with more than one record.
C1_Witness ==
  /\ run = 1
  /\ pc = "done"
  /\ \E T \in DOMAIN store : \E y1, y2 \in YearSet :
       /\ y1 # y2
       /\ CountTagged(store[T].rows, y1) > 1
       /\ CountTagged(store[T].rows, y2) > 0

\* C2: every row a step appends carries the year of the loop iteration that
\* read its file in its `year` field, and every column name written to the
\* store, in the table's schema and in the row, is lowercase.
C2_AppendedRowsTaggedLowercase ==
  [][\A T \in DOMAIN store' :
       /\ \A c \in store'[T].cols : Lower(c) = c
       /\ \A k \in (Len(RowsOf(store, T)) + 1)..Len(store'[T].rows) :
            LET row == store'[T].rows[k] IN
            /\ YearCol \in DOMAIN row
            /\ row[YearCol] = YEARS_TO_PROCESS[yi]
            /\ \A c \in DOMAIN row : Lower(c) = c]_vars

\* A file that already had a column named year, in capitals, has been appended.
C2_Witness ==
  \E y \in YearSet : \E i \in DOMAIN DbfOf(y) :
    LET f == DbfOf(y)[i] IN
    /\ \E j \in DOMAIN f.body.fields :
         f.body.fields[j] # YearCol /\ Lower(f.body.fields[j]) = YearCol
    /\ Ingested(y, f.name)
    /\ CountTagged(Appended(BaseName(f.name)), y) > 0

\* C3 as stated: after a complete run with the store available, every .dbf
\* file of a listed year has its lowercased base name as a table of the store.
C3_EveryFileHasTable ==
  (pc = "done" /\ storeAvailable) =>
    \A y \in YearSet :
      (fs[y].kind = "dir" /\ DbfOf(y) # <<>>) =>
        \A f \in NamesOf(DbfOf(y)) : BaseName(f) \in DOMAIN store

\* C3 amended: every .dbf file that the run has read, found to hold at least
\* one record and appended without an exception has its lowercased,
\* extension-stripped base name as a table of the store.
C3_EveryLoadedFileHasTable ==
  \A y \in YearSet : \A f \in NamesOf(DbfOf(y)) :
    (Ingested(y, f) /\ ~Printed("Empty", y, f)) => BaseName(f) \in DOMAIN store

\* A file with capitals in its name has been loaded.
C3_Witness ==
  \E y \in YearSet : \E f \in NamesOf(DbfOf(y)) :
    /\ Lower(f) # f
    /\ Ingested(y, f)
    /\ ~Printed("Empty", y, f)
    /\ pc = "done"

\* C4: when exactly one file of year y has raised inside the try block, the
\* run is not aborted in year y and, once the year is over, the rows appended
\* with tag y are exactly the records of the year's other .dbf files, and an
\* ERROR line naming the file and the year is printed.
C4_OneFailureIsolated ==
  \A y \in YearSet :
    Cardinality(ExcsIn(y)) = 1 =>
      LET bad == excs[CHOOSE k \in ExcsIn(y) : TRUE].file IN
      /\ ~AbortedIn(y)
      /\ Past(y) =>
           /\ \A T \in Tables :
                CountTagged(Appended(T), y) = SumRecs(DbfOf(y), T, {bad})
           /\ Printed("ERROR", y, bad)

\* The first of two files of a year failed and the second was appended.
C4_Witness ==
  \E y \in YearSet :
    /\ Cardinality(ExcsIn(y)) = 1
    /\ Past(y)
    /\ Len(DbfOf(y)) = 2
    /\ Raised(y, DbfOf(y)[1].name)
    /\ CountTagged(Appended(BaseName(DbfOf(y)[2].name)), y) > 0

\* C5: a year whose directory is missing does not abort the run, leaves no
\* row tagged with it in any table, and the run ends as, and with the store
\* that, a run over the year list without that year ends.
C5_MissingYearIsNeutral ==
  \A y \in YearSet :
    fs[y].kind = "missing" =>
      /\ ~AbortedIn(y)
      /\ \A T \in DOMAIN store : CountTagged(store[T].rows, y) = 0
      /\ Halted(Machine) =>
           LET r == RunLoader(Without(YEARS_TO_PROCESS, y), prev) IN
           r.store = store /\ r.pc = pc

\* The middle year is missing and the years around it have both fed tables.
C5_Witness ==
  /\ pc = "done"
  /\ fs[YEARS_TO_PROCESS[2]].kind = "missing"
  /\ \E T \in DOMAIN store : CountTagged(Appended(T), YEARS_TO_PROCESS[1]) > 0
  /\ \E T \in DOMAIN store : CountTagged(Appended(T), YEARS_TO_PROCESS[3]) > 0

EmptyFileAt(y, name) ==
  LET b == BodyOf(y, name) IN ~b.corrupt /\ b.nrec = 0

\* C6: the step that reads a file of zero records leaves the store as it was,
\* raises nothing and goes on to the next file of the year when there is one;
\* and once the year is over every file listed after an empty one has been
\* read and, unless it raised, has its records in its table.
C6_EmptyFileIsNeutral ==
  /\ [][(pc = "file" /\ EmptyFileAt(YEARS_TO_PROCESS[yi], dbf_files[fi])) =>
          /\ store' = store
          /\ excs' = excs
          /\ pc' # "aborted"
          /\ fi < Len(dbf_files) =>
               pc' = "file" /\ fi' = fi + 1 /\ dbf_files' = dbf_files /\ yi' = yi]_vars
  /\ [](\A y \in YearSet : \A i \in DOMAIN DbfOf(y) :
          (Past(y) /\ Printed("Empty", y, DbfOf(y)[i].name)) =>
            \A j \in (i + 1)..Len(DbfOf(y)) :
              LET g == DbfOf(y)[j] IN
              /\ Printed("Reading", y, g.name)
              /\ ~Raised(y, g.name) =>
                   CountTagged(Appended(BaseName(g.name)), y) >= g.body.nrec)

\* An empty file came first in its year and the file after it was appended.
C6_Witness ==
  \E y \in YearSet :
    /\ Past(y)
    /\ Len(DbfOf(y)) = 2
    /\ Printed("Empty", y, DbfOf(y)[1].name)
    /\ DOMAIN store = {BaseName(DbfOf(y)[2].name)}
    /\ BaseName(DbfOf(y)[1].name) # BaseName(DbfOf(y)[2].name)
    /\ CountTagged(Appended(BaseName(DbfOf(y)[2].name)), y) > 0

\* C7: the second of two runs over the same files ends with every table the
\* first run left holding twice the rows, and no step ever removes a table,
\* a column or a row, or alters a row already written.
C7_SecondRunDoubles ==
  /\ []((run = 2 /\ Halted(Machine)) =>
          \A T \in DOMAIN prev :
            T \in DOMAIN store /\ Len(store[T].rows) = 2 * Len(prev[T].rows))
  /\ [][\A T \in DOMAIN store :
          /\ T \in DOMAIN store'
          /\ store'[T].cols = store[T].cols
          /\ IsPrefix(store[T].rows, store'[T].rows)]_vars

\* The second run has ended and a table the first run filled has doubled.
C7_Witness ==
  /\ run = 2
  /\ pc = "done"
  /\ \E T \in DOMAIN prev :
       Len(prev[T].rows) > 1 /\ Len(store[T].rows) = 2 * Len(prev[T].rows)

\* C8 as stated: when the store cannot be opened, a run that has come to
\* append to it is aborted; the failure is not reported as the error of one
\* file while the loops go on to the closing summary.
C8_StoreUnavailableIsFatal ==
  (~storeAvailable /\ \E k \in DOMAIN log : log[k].kind = "Loading") =>
    /\ pc = "aborted"
    /\ \A k \in DOMAIN log : log[k].kind # "ERROR"

\* C9 as stated: whatever the directories and files are like, a run that has
\* ended has begun every year of the list, in list order, and has printed
\* the closing summary.
C9_EveryYearVisited ==
  Halted(Machine) =>
    /\ pc = "done"
    /\ SelectSeq(log, LAMBDA l : l.kind = "Processing")
         = [i \in 1..NumYears |-> Line("Processing", YEARS_TO_PROCESS[i], NoFile)]
    /\ log[Len(log)].kind = "Complete"

\* The frames the two orders of the steps make of a file's records.
TagThenLower(body, y) == LowerCols(TagYear(Materialize(body), y))
LowerThenTag(body, y) == TagYear(LowerCols(Materialize(body)), y)

\* A column that is named year but for the case of its letters.
YearInOtherCase(c) == c # YearCol /\ Lower(c) = YearCol

\* C10 as stated: for every source file the run has read, tagging then
\* lowercasing gives the frame that lowercasing then tagging gives.
C10_StepsCommute ==
  \A y \in YearSet : \A i \in DOMAIN DbfOf(y) :
    LET f == DbfOf(y)[i] IN
    (Printed("Reading", y, f.name) /\ ~f.body.corrupt)
      => TagThenLower(f.body, y) = LowerThenTag(f.body, y)

\* C10 amended: the two orders give the same frame for every source file the
\* run has read none of whose columns is named year in another letter case.
C10_StepsCommuteWithoutYearVariant ==
  \A y \in YearSet : \A i \in DOMAIN DbfOf(y) :
    LET f == DbfOf(y)[i] IN
    (/\ Printed("Reading", y, f.name)
     /\ ~f.body.corrupt
     /\ \A j \in DOMAIN f.body.fields : ~YearInOtherCase(f.body.fields[j]))
      => TagThenLower(f.body, y) = LowerThenTag(f.body, y)

\* A file with a lowercase year column and a capital column has been appended.
C10_Witness ==
  \E y \in YearSet : \E i \in DOMAIN DbfOf(y) :
    LET f == DbfOf(y)[i] IN
    /\ f.body.nrec > 0
    /\ \E j \in DOMAIN f.body.fields : f.body.fields[j] = YearCol
    /\ \A j \in DOMAIN f.body.fields : ~YearInOtherCase(f.body.fields[j])
    /\ Ingested(y, f.name)
    /\ Past(y)

====
